---- MODULE Spec2Model ----
(***************************************************************************)
(* State machine of SipService (src/src/services/sipService.ts).           *)
(*                                                                         *)
(* Every async method is cut at its `await`s: the code up to the first     *)
(* await is one action, the code that runs when the awaited promise        *)
(* settles is another, and the suspended continuation sits in `pend` in    *)
(* between.  The sip.js objects (UserAgent, Registerer, Inviter,           *)
(* Invitation) are the collaborator: their session states are              *)
(* Initial -> Establishing -> Established -> Terminating -> Terminated,    *)
(* and a request is refused by the collaborator when the session is not in *)
(* a state that allows it (bye: Established; reject: inbound Initial;      *)
(* cancel: outbound Initial or Establishing; accept: inbound Initial).     *)
(***************************************************************************)
EXTENDS Naturals, Sequences, FiniteSets

\* ---------------------------------------------------------------- bounds
MaxSessions == 2     \* sessions created in one behaviour
MaxUA       == 2     \* user agents created in one behaviour (register() calls that get that far)
MaxPending  == 2     \* suspended continuations at one instant
FullSessions == 1    \* sessions created in one behaviour of Spec
FullPending  == 1    \* suspended continuations at one instant in Spec

SessionIds == 1..MaxSessions
UAIds      == 1..MaxUA

\* ------------------------------------------------------------ input sets
Destinations == {"1001", "bad dest"}      \* "bad dest": UserAgent.makeURI yields undefined
\* Arguments of sendDTMF(): strings as sequences of characters.
Digits       == {<<"5">>, <<"*">>, <<"#">>, <<"A">>, <<>>, <<"1", "2">>}
DtmfSymbols  == {"0", "1", "2", "3", "4", "5", "6", "7", "8", "9", "*", "#"}
DtmfDuration == 100                       \* `Duration=100` of the INFO body

VARIABLES
  userAgent,       \* this.userAgent: 0 = null, else the id of a UserAgent
  uaState,         \* per UserAgent: "None" | "Created" | "Started" | "Stopped"
  registerer,      \* this.registerer: 0 = null, else the id of a Registerer
  regState,        \* per Registerer: [ua, state], state "None" | "Initial" | "Registered" |
                   \*   "Unregistered" | "Terminated"
  currentSession,  \* this.currentSession: 0 = null, else the id of a Session
  sessions,        \* per Session: [dir, state, ua, track]; track is the enabled flag of
                   \*   the outbound audio track: "none" (no description handler, peer
                   \*   connection or audio sender yet) | "on" | "off"
  isMuted,         \* this.isMuted
  phoneState,      \* argument of the last onStateChange
  callerId,        \* argument of the last onCallerId
  pend,            \* suspended continuations (an await that has not settled)
  ev,              \* the step just taken: what was called, what it sent, threw and notified
  uiMuted          \* the isMuted state of the Softphone component (its mute indicator)

vars == <<userAgent, uaState, registerer, regState, currentSession, sessions,
          isMuted, phoneState, callerId, pend, ev, uiMuted>>

\* ---------------------------------------------------------------- helpers
NoSession    == [dir |-> "none", state |-> "None", ua |-> 0, track |-> "none"]
NoRegisterer == [ua |-> 0, state |-> "None"]

\* The body of the INFO request of sendDTMF(); NoBody where a step sends none.
NoBody == [signal |-> "", duration |-> 0]

\* A step that calls a method or delivers an event: the request it sent to the
\* collaborator, how the call returned so far, the notifications it emitted.
Ev(op, sid, req, result, notes) ==
  [op |-> op, sid |-> sid, req |-> req, settled |-> "none", result |-> result,
   notes |-> notes, arg |-> <<>>, body |-> NoBody]

\* A step that resumes a method after an await: the promise that settled
\* ("resolved" or "rejected"), and the request the step sent next, if any.
EvS(op, sid, ok, req, result, notes) ==
  [op |-> op, sid |-> sid, req |-> req,
   settled |-> IF ok THEN "resolved" ELSE "rejected", result |-> result,
   notes |-> notes, arg |-> <<>>, body |-> NoBody]

Pend(op, id, stage, ok, owner) ==
  [op |-> op, id |-> id, stage |-> stage, ok |-> ok, owner |-> owner]

St(s)  == <<"state", s>>
Cid(c) == <<"callerId", c>>
Err(m) == <<"error", m>>

NumSessions == Cardinality({s \in SessionIds : sessions[s].state # "None"})
NumUA       == Cardinality({u \in UAIds : uaState[u] # "None"})
Live(s)     == sessions[s].state \notin {"None", "Terminated"}

Init ==
  /\ userAgent = 0
  /\ uaState = [u \in UAIds |-> "None"]
  /\ registerer = 0
  /\ regState = [u \in UAIds |-> NoRegisterer]
  /\ currentSession = 0
  /\ sessions = [s \in SessionIds |-> NoSession]
  /\ isMuted = FALSE
  /\ phoneState = "disconnected"
  /\ callerId = ""
  /\ pend = {}
  /\ ev = Ev("init", 0, "none", "ok", <<>>)
  /\ uiMuted = FALSE

\* ------------------------------------------------------------- register()
\* register() up to `await this.userAgent.start()`.
Register(valid) ==
  /\ IF valid
       THEN /\ NumUA < MaxUA
            /\ Cardinality(pend) < MaxPending
            /\ LET u == NumUA + 1 IN
                 /\ userAgent' = u
                 /\ uaState' = [uaState EXCEPT ![u] = "Created"]
                 /\ pend' = pend \cup {Pend("register", u, "start", TRUE, "user")}
                 /\ ev' = Ev("register", u, "start", "ok", <<St("connecting")>>)
            /\ phoneState' = "connecting"
       ELSE /\ phoneState' = "disconnected"
            /\ ev' = Ev("register", 0, "none", "throw:InvalidURI",
                        <<St("connecting"), St("disconnected"), Err("Invalid SIP URI")>>)
            /\ UNCHANGED <<userAgent, uaState, pend>>
  /\ UNCHANGED <<registerer, regState, currentSession, sessions, isMuted, callerId>>

\* The catch block of register().
RegisterCatch(p, result) ==
  /\ phoneState' = "disconnected"
  /\ pend' = pend \ {p}
  /\ ev' = EvS("register:settled", p.id, FALSE, "none", result,
               <<St("disconnected"), Err("register failed")>>)

\* register() after `await this.userAgent.start()` settled.
RegisterStarted(p, ok) ==
  /\ p \in pend /\ p.op = "register" /\ p.stage = "start"
  /\ IF ok /\ userAgent # 0
       THEN \* new Registerer(this.userAgent), listener, registerer.register()
            /\ uaState' = [uaState EXCEPT ![p.id] =
                             IF uaState[p.id] = "Created" THEN "Started" ELSE @]
            /\ registerer' = p.id
            /\ regState' = [regState EXCEPT ![p.id] = [ua |-> userAgent, state |-> "Initial"]]
            /\ pend' = (pend \ {p}) \cup {Pend("register", p.id, "reg", TRUE, "user")}
            /\ ev' = EvS("register:settled", p.id, TRUE, "register", "ok", <<>>)
            /\ UNCHANGED phoneState
       ELSE \* start() rejected, or new Registerer(null) threw
            /\ RegisterCatch(p, "throw:start")
            /\ uaState' = [uaState EXCEPT ![p.id] =
                             IF ok /\ uaState[p.id] = "Created" THEN "Started" ELSE @]
            /\ UNCHANGED <<registerer, regState>>
  /\ UNCHANGED <<userAgent, currentSession, sessions, isMuted, callerId>>

\* register() after `await this.registerer.register()` settled.
RegisterSent(p, ok) ==
  /\ p \in pend /\ p.op = "register" /\ p.stage = "reg"
  /\ IF ok
       THEN /\ pend' = pend \ {p}
            /\ ev' = EvS("register:settled", p.id, TRUE, "none", "ok", <<>>)
            /\ UNCHANGED phoneState
       ELSE RegisterCatch(p, "throw:register")
  /\ UNCHANGED <<userAgent, uaState, registerer, regState, currentSession,
                 sessions, isMuted, callerId>>

RegistererRegistered_Silent(r) ==
  /\ regState[r].state = "Initial"
  /\ uaState[regState[r].ua] = "Started"
  /\ regState' = [regState EXCEPT ![r].state = "Registered"]
  /\ ev' = Ev("registerer:Registered", r, "none", "ok", <<>>)
  /\ UNCHANGED <<userAgent, uaState, registerer, currentSession, sessions,
                 isMuted, phoneState, callerId, pend>>

\* registerer.stateChange listener, case RegistererState.Registered.
RegistererRegistered(r) ==
  /\ regState[r].state = "Initial"
  /\ uaState[regState[r].ua] = "Started"
  /\ regState' = [regState EXCEPT ![r].state = "Registered"]
  /\ phoneState' = "registered"
  /\ ev' = Ev("registerer:Registered", r, "none", "ok", <<St("registered")>>)
  /\ UNCHANGED <<userAgent, uaState, registerer, currentSession, sessions,
                 isMuted, callerId, pend>>

\* registerer.stateChange listener, case RegistererState.Unregistered.
RegistererUnregistered(r) ==
  /\ regState[r].state \in {"Initial", "Registered"}
  /\ regState' = [regState EXCEPT ![r].state = "Unregistered"]
  /\ phoneState' = "disconnected"
  /\ ev' = Ev("registerer:Unregistered", r, "none", "ok", <<St("disconnected")>>)
  /\ UNCHANGED <<userAgent, uaState, registerer, currentSession, sessions,
                 isMuted, callerId, pend>>

\* ----------------------------------------------------------------- call()
Call_CallerIdFirst(dest) ==
  /\ IF userAgent = 0
       THEN /\ ev' = Ev("call", 0, "none", "throw:NotConnected", <<>>)
            /\ UNCHANGED <<currentSession, sessions, phoneState, callerId, pend>>
       ELSE IF dest = "bad dest"
       THEN /\ ev' = Ev("call", 0, "none", "throw:InvalidDestination", <<>>)
            /\ UNCHANGED <<currentSession, sessions, phoneState, callerId, pend>>
       ELSE /\ NumSessions < MaxSessions
            /\ Cardinality(pend) < MaxPending
            /\ LET s == NumSessions + 1 IN
                 /\ sessions' = [sessions EXCEPT ![s] = [dir |-> "out", state |-> "Initial", ua |-> userAgent, track |-> "none"]]
                 /\ currentSession' = s
                 /\ pend' = pend \cup {Pend("call", s, "invite", TRUE, "user")}
                 /\ ev' = Ev("call", s, "invite", "ok", <<Cid(dest), St("calling")>>)
            /\ phoneState' = "calling"
            /\ callerId' = dest
  /\ UNCHANGED <<userAgent, uaState, registerer, regState, isMuted>>

\* call() up to `await inviter.invite()`.
Call(dest) ==
  /\ IF userAgent = 0
       THEN /\ ev' = Ev("call", 0, "none", "throw:NotConnected", <<>>)
            /\ UNCHANGED <<currentSession, sessions, phoneState, callerId, pend>>
       ELSE IF dest = "bad dest"
       THEN /\ ev' = Ev("call", 0, "none", "throw:InvalidDestination", <<>>)
            /\ UNCHANGED <<currentSession, sessions, phoneState, callerId, pend>>
       ELSE /\ NumSessions < MaxSessions
            /\ Cardinality(pend) < MaxPending
            /\ LET s == NumSessions + 1 IN
                 /\ sessions' = [sessions EXCEPT ![s] = [dir |-> "out", state |-> "Initial", ua |-> userAgent, track |-> "none"]]
                 /\ currentSession' = s
                 /\ pend' = pend \cup {Pend("call", s, "invite", TRUE, "user")}
                 /\ ev' = Ev("call", s, "invite", "ok", <<St("calling"), Cid(dest)>>)
            /\ phoneState' = "calling"
            /\ callerId' = dest
  /\ UNCHANGED <<userAgent, uaState, registerer, regState, isMuted>>

\* call() after `await inviter.invite()` settled.  The collaborator sends the
\* INVITE once the session is Establishing, and a session whose invite() is
\* rejected has been moved to Terminated by the collaborator first.
CallSettled(p, ok) ==
  /\ p \in pend /\ p.op = "call"
  /\ pend' = pend \ {p}
  /\ IF ok
       THEN /\ sessions[p.id].state # "Initial"
            /\ ev' = EvS("call:settled", p.id, TRUE, "none", "ok", <<>>)
            /\ UNCHANGED <<currentSession, phoneState>>
       ELSE /\ sessions[p.id].state = "Terminated"
            /\ currentSession' = 0
            /\ phoneState' = "registered"
            /\ ev' = EvS("call:settled", p.id, FALSE, "none", "throw:invite", <<St("registered")>>)
  /\ UNCHANGED <<userAgent, uaState, registerer, regState, sessions, isMuted,
                 callerId>>

\* --------------------------------------------------------------- answer()
Answer_NotifiesCalling ==
  /\ IF currentSession = 0 \/ sessions[currentSession].dir # "in"
       THEN /\ ev' = Ev("answer", currentSession, "none", "throw:NoIncomingCall", <<>>)
            /\ UNCHANGED <<sessions, pend, phoneState>>
       ELSE LET s  == currentSession
                ok == sessions[s].state = "Initial"
                p  == Pend("answer", s, "accept", ok, "user") IN
            /\ p \notin pend
            /\ Cardinality(pend) < MaxPending
            /\ sessions' = IF ok THEN [sessions EXCEPT ![s].state = "Establishing"]
                                 ELSE sessions
            /\ pend' = pend \cup {p}
            /\ ev' = Ev("answer", s, "accept", "ok", IF ok THEN <<St("calling")>> ELSE <<>>)
            /\ phoneState' = IF ok THEN "calling" ELSE phoneState
  /\ UNCHANGED <<userAgent, uaState, registerer, regState, currentSession,
                 isMuted, callerId>>

\* answer() up to `await invitation.accept()`.  accept() on an Invitation
\* that is still Initial moves it to Establishing at once (the stateChange
\* listener emits nothing for an Invitation); on any other state it is refused.
Answer ==
  /\ IF currentSession = 0 \/ sessions[currentSession].dir # "in"
       THEN /\ ev' = Ev("answer", currentSession, "none", "throw:NoIncomingCall", <<>>)
            /\ UNCHANGED <<sessions, pend>>
       ELSE LET s  == currentSession
                ok == sessions[s].state = "Initial"
                p  == Pend("answer", s, "accept", ok, "user") IN
            /\ p \notin pend
            /\ Cardinality(pend) < MaxPending
            /\ sessions' = IF ok THEN [sessions EXCEPT ![s].state = "Establishing"]
                                 ELSE sessions
            /\ pend' = pend \cup {p}
            /\ ev' = Ev("answer", s, "accept", "ok", <<>>)
  /\ UNCHANGED <<userAgent, uaState, registerer, regState, currentSession,
                 isMuted, phoneState, callerId>>

\* answer() after `await invitation.accept()` settled.  A refused accept()
\* (p.ok false) rejects; an accept() that started and then fails has had its
\* session moved to Terminated by the collaborator before it rejects.
AnswerSettled(p, ok) ==
  /\ p \in pend /\ p.op = "answer"
  /\ pend' = pend \ {p}
  /\ IF ok
       THEN /\ p.ok
            /\ ev' = EvS("answer:settled", p.id, TRUE, "none", "ok", <<>>)
       ELSE /\ p.ok => sessions[p.id].state = "Terminated"
            /\ ev' = EvS("answer:settled", p.id, FALSE, "none", "throw:accept",
                         <<Err("Failed to answer call")>>)
  /\ UNCHANGED <<userAgent, uaState, registerer, regState, currentSession,
                 sessions, isMuted, phoneState, callerId>>

\* --------------------------------------------------------------- hangup()
\* The request hangup() picks (the if / else-if chain on state and instanceof).
HangupRequest(sess) ==
  IF sess.state \in {"Establishing", "Established"} THEN "bye"
  ELSE IF sess.dir = "in" THEN "reject"
  ELSE "cancel"

\* Whether the collaborator accepts the request in the session's state.
RequestAllowed(req, sess) ==
  \/ req = "bye"    /\ sess.state = "Established"
  \/ req = "reject" /\ sess.dir = "in"  /\ sess.state = "Initial"
  \/ req = "cancel" /\ sess.dir = "out" /\ sess.state \in {"Initial", "Establishing"}

\* What unregister() does next once `stage` is behind it:
\* "unreg" = await registerer.unregister(), "stop" = await userAgent.stop(),
\* "done" = onStateChange("disconnected").
UnregisterNext(stage, ua) ==
  IF stage = "hangup" /\ registerer # 0 THEN "unreg"
  ELSE IF stage \in {"hangup", "unreg"} /\ ua # 0 THEN "stop"
  ELSE "done"

\* hangup() up to its await (owner "user"), or unregister() when a session is
\* active, up to `await this.hangup()` (owner "unregister").  A request the
\* collaborator allows starts the teardown and will resolve; one it refuses
\* leaves the session as it is and will reject.
HangupStart(owner) ==
  /\ currentSession # 0
  /\ LET s   == currentSession
         req == HangupRequest(sessions[s])
         ok  == RequestAllowed(req, sessions[s])
         p   == Pend("hangup", s, req, ok, owner) IN
       /\ p \notin pend
       /\ Cardinality(pend) < MaxPending
       /\ sessions' = IF ok THEN [sessions EXCEPT ![s].state = "Terminating"] ELSE sessions
       /\ pend' = pend \cup {p}
       /\ ev' = Ev(IF owner = "user" THEN "hangup" ELSE "unregister", s, req, "ok", <<>>)
  /\ UNCHANGED <<userAgent, uaState, registerer, regState, currentSession,
                 isMuted, phoneState, callerId>>

HangupNoSession_RunsFinally ==
  /\ currentSession = 0
  /\ isMuted' = FALSE
  /\ phoneState' = "registered"
  /\ callerId' = ""
  /\ ev' = Ev("hangup", 0, "none", "ok", <<St("registered"), Cid("")>>)
  /\ UNCHANGED <<userAgent, uaState, registerer, regState, currentSession,
                 sessions, pend>>

\* hangup() with no current session: return.
HangupNoSession ==
  /\ currentSession = 0
  /\ ev' = Ev("hangup", 0, "none", "ok", <<>>)
  /\ UNCHANGED <<userAgent, uaState, registerer, regState, currentSession,
                 sessions, isMuted, phoneState, callerId, pend>>

Hangup == HangupNoSession \/ HangupStart("user")

\* The continuation of unregister() from the point where `next` starts.
UnregisterContinue(rest, next, notes, e) ==
  /\ pend' = IF next = "done" THEN rest
             ELSE rest \cup {Pend("unregister", userAgent, next, TRUE, "user")}
  /\ phoneState' = IF next = "done" THEN "disconnected"
                   ELSE IF notes = <<>> THEN phoneState ELSE "registered"
  /\ ev' = [e EXCEPT !.req = IF next = "done" THEN "none" ELSE next,
                      !.notes = IF next = "done" THEN notes \o <<St("disconnected")>>
                                                 ELSE notes]

HangupSettled_RethrowsOnReject(p) ==
  /\ p \in pend /\ p.op = "hangup" /\ p.owner = "user"
  /\ pend' = pend \ {p}
  /\ IF p.ok
       THEN /\ currentSession' = 0
            /\ isMuted' = FALSE
            /\ callerId' = ""
            /\ phoneState' = "registered"
            /\ ev' = EvS("hangup:settled", p.id, TRUE, "none", "ok",
                         <<St("registered"), Cid("")>>)
       ELSE /\ ev' = EvS("hangup:settled", p.id, FALSE, "none", "throw:hangup", <<>>)
            /\ UNCHANGED <<currentSession, isMuted, callerId, phoneState>>
  /\ UNCHANGED <<userAgent, uaState, registerer, regState, sessions>>

\* hangup() after its await settled: catch (log only) and finally.  When
\* unregister() was awaiting this hangup(), unregister() goes on in the same turn.
HangupSettled(p) ==
  /\ p \in pend /\ p.op = "hangup"
  /\ currentSession' = 0
  /\ isMuted' = FALSE
  /\ callerId' = ""
  /\ IF p.owner = "user"
       THEN /\ pend' = pend \ {p}
            /\ phoneState' = "registered"
            /\ ev' = EvS("hangup:settled", p.id, p.ok, "none", "ok",
                         <<St("registered"), Cid("")>>)
       ELSE UnregisterContinue(pend \ {p}, UnregisterNext("hangup", userAgent),
                               <<St("registered"), Cid("")>>,
                               EvS("unregister:hangup-settled", p.id, p.ok, "none", "ok", <<>>))
  /\ UNCHANGED <<userAgent, uaState, registerer, regState, sessions>>

\* ----------------------------------------------------------- unregister()
\* unregister() with no current session, up to its first await (or to its end).
UnregisterStart ==
  /\ currentSession = 0
  /\ Cardinality(pend) < MaxPending
  /\ UnregisterContinue(pend, UnregisterNext("hangup", userAgent), <<>>,
                        Ev("unregister", 0, "none", "ok", <<>>))
  /\ UNCHANGED <<userAgent, uaState, registerer, regState, currentSession,
                 sessions, isMuted, callerId>>

Unregister == UnregisterStart \/ HangupStart("unregister")

\* userAgent.stop() resolves after the collaborator has terminated the
\* sessions of that user agent; each one's stateChange listener has run.
StopTerminates(u) == \E s \in SessionIds : Live(s) /\ sessions[s].ua = u

\* unregister() after `await registerer.unregister()` or `await userAgent.stop()`
\* settled; a rejection goes to the catch block.  A user agent that stopped has
\* disposed of its registerers.
UnregisterSettled(p, ok) ==
  /\ p \in pend /\ p.op = "unregister"
  /\ IF ~ok
       THEN /\ pend' = pend \ {p}
            /\ ev' = EvS("unregister:settled", p.id, FALSE, "none", "ok",
                         <<Err("Failed to disconnect cleanly")>>)
            /\ UNCHANGED <<userAgent, uaState, phoneState>>
       ELSE IF p.stage = "unreg"
       THEN /\ UnregisterContinue(pend \ {p}, UnregisterNext("unreg", userAgent), <<>>,
                                   EvS("unregister:settled", p.id, TRUE, "none", "ok", <<>>))
            /\ UNCHANGED <<userAgent, uaState>>
       ELSE /\ userAgent' = 0
            /\ uaState' = [uaState EXCEPT ![p.id] = "Stopped"]
            /\ UnregisterContinue(pend \ {p}, "done",
                   IF StopTerminates(p.id) THEN <<St("registered"), Cid("")>> ELSE <<>>,
                   EvS("unregister:settled", p.id, TRUE, "none", "ok", <<>>))
  /\ IF ok /\ p.stage = "stop"
       THEN /\ sessions' = [s \in SessionIds |->
                              IF Live(s) /\ sessions[s].ua = p.id
                                THEN [sessions[s] EXCEPT !.state = "Terminated", !.track = "none"]
                                ELSE sessions[s]]
            /\ regState' = [r \in UAIds |->
                              IF regState[r].ua = p.id
                                THEN [regState[r] EXCEPT !.state = "Terminated"]
                                ELSE regState[r]]
            /\ currentSession' = IF StopTerminates(p.id) THEN 0 ELSE currentSession
            /\ isMuted' = IF StopTerminates(p.id) THEN FALSE ELSE isMuted
            /\ callerId' = IF StopTerminates(p.id) THEN "" ELSE callerId
       ELSE UNCHANGED <<sessions, regState, currentSession, isMuted, callerId>>
  /\ UNCHANGED registerer

\* ------------------------------------------------------------ toggleMute()
\* The collaborator creates the session description handler, its peer
\* connection and the sender of the local audio track while the session is
\* Establishing; a new track is enabled.
AudioPathReady(s) ==
  /\ sessions[s].state = "Establishing"
  /\ sessions[s].track = "none"
  /\ sessions' = [sessions EXCEPT ![s].track = "on"]
  /\ ev' = Ev("session:audio", s, "none", "ok", <<>>)
  /\ UNCHANGED <<userAgent, uaState, registerer, regState, currentSession,
                 isMuted, phoneState, callerId, pend>>

\* sender.track.enabled = !this.isMuted, where there is an audio sender.
TrackAfterToggle(track, muted) ==
  IF track = "none" THEN "none" ELSE IF muted THEN "off" ELSE "on"

ToggleMute ==
  /\ IF currentSession = 0
       THEN /\ ev' = Ev("toggleMute", 0, "none", "return:false", <<>>)
            /\ UNCHANGED <<isMuted, sessions>>
       ELSE /\ isMuted' = ~isMuted
            /\ sessions' = [sessions EXCEPT ![currentSession].track =
                               TrackAfterToggle(@, isMuted')]
            /\ ev' = Ev("toggleMute", currentSession,
                        IF sessions[currentSession].track = "none" THEN "none" ELSE "audio",
                        IF isMuted' THEN "return:true" ELSE "return:false", <<>>)
  /\ UNCHANGED <<userAgent, uaState, registerer, regState, currentSession,
                 phoneState, callerId, pend>>

\* -------------------------------------------------------------- sendDTMF()
ValidDigit_Unanchored(digit) == Len(digit) >= 1 /\ digit[1] \in DtmfSymbols

\* /^[0-9*#]$/.test(digit)
ValidDigit(digit) == Len(digit) = 1 /\ digit[1] \in DtmfSymbols

SendDTMF_Rethrows(digit, throws) ==
  /\ ev' = IF currentSession = 0 \/ ~ValidDigit(digit)
             THEN [Ev("sendDTMF", currentSession, "none", "ok", <<>>) EXCEPT !.arg = digit]
             ELSE [Ev("sendDTMF", currentSession, "info",
                      IF throws THEN "throw:info" ELSE "ok",
                      IF throws THEN <<Err("Failed to send DTMF")>> ELSE <<>>) EXCEPT
                     !.arg = digit,
                     !.body = [signal |-> digit[1], duration |-> DtmfDuration]]
  /\ UNCHANGED <<userAgent, uaState, registerer, regState, currentSession,
                 sessions, isMuted, phoneState, callerId, pend>>

\* throws: this.currentSession.info() throws; the catch block logs it.
SendDTMF(digit, throws) ==
  /\ ev' = IF currentSession = 0 \/ ~ValidDigit(digit)
             THEN [Ev("sendDTMF", currentSession, "none", "ok", <<>>) EXCEPT !.arg = digit]
             ELSE [Ev("sendDTMF", currentSession, "info", "ok", <<>>) EXCEPT
                     !.arg = digit,
                     !.body = [signal |-> digit[1], duration |-> DtmfDuration],
                     !.settled = IF throws THEN "caught" ELSE "none"]
  /\ UNCHANGED <<userAgent, uaState, registerer, regState, currentSession,
                 sessions, isMuted, phoneState, callerId, pend>>

\* ---------------------------------------------------- handleIncomingCall()
HandleIncomingCall_AlwaysUnknown(u, hasUser) ==
  /\ uaState[u] = "Started"
  /\ NumSessions < MaxSessions
  /\ LET s == NumSessions + 1 IN
       /\ sessions' = [sessions EXCEPT ![s] = [dir |-> "in", state |-> "Initial", ua |-> u, track |-> "none"]]
       /\ currentSession' = s
       /\ phoneState' = "ringing"
       /\ callerId' = "Unknown"
       /\ ev' = [Ev("incoming", s, "none", "ok", <<St("ringing"), Cid("Unknown")>>) EXCEPT
                   !.arg = IF hasUser THEN "4155551212" ELSE ""]
  /\ UNCHANGED <<userAgent, uaState, registerer, regState, isMuted, pend>>

\* delegate.onInvite of a started user agent.  hasUser: the From header
\* carries a user part ("4155551212"); ev.arg is that user part.
HandleIncomingCall(u, hasUser) ==
  /\ uaState[u] = "Started"
  /\ NumSessions < MaxSessions
  /\ LET s  == NumSessions + 1
         id == IF hasUser THEN "4155551212" ELSE "Unknown" IN
       /\ sessions' = [sessions EXCEPT ![s] = [dir |-> "in", state |-> "Initial", ua |-> u, track |-> "none"]]
       /\ currentSession' = s
       /\ phoneState' = "ringing"
       /\ callerId' = id
       /\ ev' = [Ev("incoming", s, "none", "ok", <<St("ringing"), Cid(id)>>) EXCEPT
                   !.arg = IF hasUser THEN "4155551212" ELSE ""]
  /\ UNCHANGED <<userAgent, uaState, registerer, regState, isMuted, pend>>

\* ---------------------------------- setupSessionHandlers(): the listener
\* case SessionState.Establishing.  Only an Inviter gets there by an event of
\* its own (an Invitation gets there inside accept(), see Answer).
SessionEstablishing(s) ==
  /\ sessions[s].state = "Initial" /\ sessions[s].dir = "out"
  /\ sessions' = [sessions EXCEPT ![s].state = "Establishing"]
  /\ phoneState' = "calling"
  /\ ev' = Ev("session:Establishing", s, "none", "ok", <<St("calling")>>)
  /\ UNCHANGED <<userAgent, uaState, registerer, regState, currentSession,
                 isMuted, callerId, pend>>

\* case SessionState.Established.  The collaborator reports it once the
\* description handler has exchanged the descriptions, so the audio path exists.
SessionEstablished(s) ==
  /\ sessions[s].state = "Establishing"
  /\ sessions[s].track # "none"
  /\ sessions' = [sessions EXCEPT ![s].state = "Established"]
  /\ phoneState' = "in-call"
  /\ ev' = Ev("session:Established", s, "none", "ok", <<St("in-call")>>)
  /\ UNCHANGED <<userAgent, uaState, registerer, regState, currentSession,
                 isMuted, callerId, pend>>

SessionTerminated_OnlyEstablished(s) ==
  /\ Live(s)
  /\ sessions' = [sessions EXCEPT ![s].state = "Terminated", ![s].track = "none"]
  /\ currentSession' = IF sessions[s].state = "Established" THEN 0 ELSE currentSession
  /\ isMuted' = FALSE
  /\ phoneState' = "registered"
  /\ callerId' = ""
  /\ ev' = Ev("session:Terminated", s, "none", "ok", <<St("registered"), Cid("")>>)
  /\ UNCHANGED <<userAgent, uaState, registerer, regState, pend>>

SessionTerminated_KeepsSlot(s) ==
  /\ Live(s)
  /\ sessions' = [sessions EXCEPT ![s].state = "Terminated", ![s].track = "none"]
  /\ isMuted' = FALSE
  /\ phoneState' = "registered"
  /\ callerId' = ""
  /\ ev' = Ev("session:Terminated", s, "none", "ok", <<St("registered"), Cid("")>>)
  /\ UNCHANGED <<userAgent, uaState, registerer, regState, currentSession, pend>>

\* case SessionState.Terminated.  The collaborator has closed the session's
\* description handler (its peer connection and senders are gone).
SessionTerminated(s) ==
  /\ Live(s)
  /\ sessions' = [sessions EXCEPT ![s].state = "Terminated", ![s].track = "none"]
  /\ currentSession' = 0
  /\ isMuted' = FALSE
  /\ phoneState' = "registered"
  /\ callerId' = ""
  /\ ev' = Ev("session:Terminated", s, "none", "ok", <<St("registered"), Cid("")>>)
  /\ UNCHANGED <<userAgent, uaState, registerer, regState, pend>>

\* ------------------------------------------------------------------ Next
\* The whole service, from construction.  FullLimit keeps the product of the
\* registration side and the session side small.
FullLimit ==
  /\ NumSessions <= FullSessions
  /\ Cardinality(pend) <= FullPending

Next ==
  \/ (\E valid \in BOOLEAN : Register(valid)) /\ FullLimit' /\ UNCHANGED uiMuted
  \/ (\E p \in pend, ok \in BOOLEAN : RegisterStarted(p, ok)) /\ FullLimit' /\ UNCHANGED uiMuted
  \/ (\E p \in pend, ok \in BOOLEAN : RegisterSent(p, ok)) /\ FullLimit' /\ UNCHANGED uiMuted
  \/ (\E r \in UAIds : RegistererRegistered(r)) /\ FullLimit' /\ UNCHANGED uiMuted
  \/ (\E r \in UAIds : RegistererUnregistered(r)) /\ FullLimit' /\ UNCHANGED uiMuted
  \/ (Unregister) /\ FullLimit' /\ UNCHANGED uiMuted
  \/ (\E p \in pend, ok \in BOOLEAN : UnregisterSettled(p, ok)) /\ FullLimit' /\ UNCHANGED uiMuted
  \/ (\E dest \in Destinations : Call(dest)) /\ FullLimit' /\ UNCHANGED uiMuted
  \/ (\E p \in pend, ok \in BOOLEAN : CallSettled(p, ok)) /\ FullLimit' /\ UNCHANGED uiMuted
  \/ (Answer) /\ FullLimit' /\ UNCHANGED uiMuted
  \/ (\E p \in pend, ok \in BOOLEAN : AnswerSettled(p, ok)) /\ FullLimit' /\ UNCHANGED uiMuted
  \/ (Hangup) /\ FullLimit' /\ UNCHANGED uiMuted
  \/ (\E p \in pend : HangupSettled(p)) /\ FullLimit' /\ UNCHANGED uiMuted
  \/ (ToggleMute) /\ FullLimit' /\ UNCHANGED uiMuted
  \/ (\E digit \in Digits, throws \in BOOLEAN : SendDTMF(digit, throws)) /\ FullLimit' /\ UNCHANGED uiMuted
  \/ (\E u \in UAIds, hasUser \in BOOLEAN : HandleIncomingCall(u, hasUser)) /\ FullLimit' /\ UNCHANGED uiMuted
  \/ (\E s \in SessionIds : SessionEstablishing(s)) /\ FullLimit' /\ UNCHANGED uiMuted
  \/ (\E s \in SessionIds : AudioPathReady(s)) /\ FullLimit' /\ UNCHANGED uiMuted
  \/ (\E s \in SessionIds : SessionEstablished(s)) /\ FullLimit' /\ UNCHANGED uiMuted
  \/ (\E s \in SessionIds : SessionTerminated(s)) /\ FullLimit' /\ UNCHANGED uiMuted

Spec == Init /\ [][Next]_vars

\* The session side alone: the service after register() has completed and the
\* registerer has reported Registered, with the registration left alone, every
\* destination valid and every invite carrying its caller's user part.
InitRegistered ==
  /\ userAgent = 1
  /\ uaState = [u \in UAIds |-> IF u = 1 THEN "Started" ELSE "None"]
  /\ registerer = 1
  /\ regState = [u \in UAIds |-> IF u = 1 THEN [ua |-> 1, state |-> "Registered"]
                                           ELSE NoRegisterer]
  /\ currentSession = 0
  /\ sessions = [s \in SessionIds |-> NoSession]
  /\ isMuted = FALSE
  /\ phoneState = "registered"
  /\ callerId = ""
  /\ pend = {}
  /\ ev = Ev("registerer:Registered", 1, "none", "ok", <<St("registered")>>)
  /\ uiMuted = FALSE

NextCalls ==
  \/ (\E dest \in {"1001"} : Call(dest)) /\ UNCHANGED uiMuted
  \/ (\E p \in pend, ok \in BOOLEAN : CallSettled(p, ok)) /\ UNCHANGED uiMuted
  \/ (Answer) /\ UNCHANGED uiMuted
  \/ (\E p \in pend, ok \in BOOLEAN : AnswerSettled(p, ok)) /\ UNCHANGED uiMuted
  \/ (Hangup) /\ UNCHANGED uiMuted
  \/ (\E p \in pend : HangupSettled(p)) /\ UNCHANGED uiMuted
  \/ (ToggleMute) /\ UNCHANGED uiMuted
  \/ (\E u \in UAIds : HandleIncomingCall(u, TRUE)) /\ UNCHANGED uiMuted
  \/ (\E s \in SessionIds : SessionEstablishing(s)) /\ UNCHANGED uiMuted
  \/ (\E s \in SessionIds : AudioPathReady(s)) /\ UNCHANGED uiMuted
  \/ (\E s \in SessionIds : SessionEstablished(s)) /\ UNCHANGED uiMuted
  \/ (\E s \in SessionIds : SessionTerminated(s)) /\ UNCHANGED uiMuted

SpecCalls == InitRegistered /\ [][NextCalls]_vars

\* The session side with every command of a call, sendDTMF() included, and at
\* most FullPending suspended continuations at one instant.
CommandLimit == Cardinality(pend) <= FullPending

NextCommands ==
  \/ (\E dest \in {"1001"} : Call(dest)) /\ CommandLimit' /\ UNCHANGED uiMuted
  \/ (\E p \in pend, ok \in BOOLEAN : CallSettled(p, ok)) /\ CommandLimit' /\ UNCHANGED uiMuted
  \/ (Answer) /\ CommandLimit' /\ UNCHANGED uiMuted
  \/ (\E p \in pend, ok \in BOOLEAN : AnswerSettled(p, ok)) /\ CommandLimit' /\ UNCHANGED uiMuted
  \/ (Hangup) /\ CommandLimit' /\ UNCHANGED uiMuted
  \/ (\E p \in pend : HangupSettled(p)) /\ CommandLimit' /\ UNCHANGED uiMuted
  \/ (ToggleMute) /\ CommandLimit' /\ UNCHANGED uiMuted
  \/ (\E digit \in {<<"5">>} : SendDTMF(digit, FALSE)) /\ CommandLimit' /\ UNCHANGED uiMuted
  \/ (\E u \in UAIds : HandleIncomingCall(u, TRUE)) /\ CommandLimit' /\ UNCHANGED uiMuted
  \/ (\E s \in SessionIds : SessionEstablishing(s)) /\ CommandLimit' /\ UNCHANGED uiMuted
  \/ (\E s \in SessionIds : AudioPathReady(s)) /\ CommandLimit' /\ UNCHANGED uiMuted
  \/ (\E s \in SessionIds : SessionEstablished(s)) /\ CommandLimit' /\ UNCHANGED uiMuted
  \/ (\E s \in SessionIds : SessionTerminated(s)) /\ CommandLimit' /\ UNCHANGED uiMuted

SpecCommands == InitRegistered /\ [][NextCommands]_vars

\* sendDTMF() with every kind of argument, on the sessions of one call at a
\* time as they are set up and end.
NextDTMF ==
  \/ (\E dest \in {"1001"} : Call(dest)) /\ FullLimit' /\ UNCHANGED uiMuted
  \/ (\E p \in pend, ok \in BOOLEAN : CallSettled(p, ok)) /\ FullLimit' /\ UNCHANGED uiMuted
  \/ (\E u \in UAIds : HandleIncomingCall(u, TRUE)) /\ FullLimit' /\ UNCHANGED uiMuted
  \/ (Answer) /\ FullLimit' /\ UNCHANGED uiMuted
  \/ (\E p \in pend, ok \in BOOLEAN : AnswerSettled(p, ok)) /\ FullLimit' /\ UNCHANGED uiMuted
  \/ (\E s \in SessionIds : SessionEstablishing(s)) /\ FullLimit' /\ UNCHANGED uiMuted
  \/ (\E s \in SessionIds : AudioPathReady(s)) /\ FullLimit' /\ UNCHANGED uiMuted
  \/ (\E s \in SessionIds : SessionEstablished(s)) /\ FullLimit' /\ UNCHANGED uiMuted
  \/ (\E s \in SessionIds : SessionTerminated(s)) /\ FullLimit' /\ UNCHANGED uiMuted
  \/ (\E digit \in Digits, throws \in BOOLEAN : SendDTMF(digit, throws)) /\ FullLimit' /\ UNCHANGED uiMuted

SpecDTMF == InitRegistered /\ [][NextDTMF]_vars

\* The registration side alone, from construction.
NextRegister ==
  \/ (\E valid \in BOOLEAN : Register(valid)) /\ UNCHANGED uiMuted
  \/ (\E p \in pend, ok \in BOOLEAN : RegisterStarted(p, ok)) /\ UNCHANGED uiMuted
  \/ (\E p \in pend, ok \in BOOLEAN : RegisterSent(p, ok)) /\ UNCHANGED uiMuted
  \/ (\E r \in UAIds : RegistererRegistered(r)) /\ UNCHANGED uiMuted
  \/ (\E r \in UAIds : RegistererUnregistered(r)) /\ UNCHANGED uiMuted
  \/ (UnregisterStart) /\ UNCHANGED uiMuted
  \/ (\E p \in pend, ok \in BOOLEAN : UnregisterSettled(p, ok)) /\ UNCHANGED uiMuted

SpecRegister == Init /\ [][NextRegister]_vars

\* unregister() tearing down a call whose commands are still in flight: up to
\* MaxPending continuations, FullSessions sessions.
TeardownLimit == NumSessions <= FullSessions

NextTeardown ==
  \/ (Call("1001")) /\ TeardownLimit' /\ UNCHANGED uiMuted
  \/ (\E p \in pend, ok \in BOOLEAN : CallSettled(p, ok)) /\ TeardownLimit' /\ UNCHANGED uiMuted
  \/ (\E u \in UAIds : HandleIncomingCall(u, TRUE)) /\ TeardownLimit' /\ UNCHANGED uiMuted
  \/ (Answer) /\ TeardownLimit' /\ UNCHANGED uiMuted
  \/ (\E p \in pend, ok \in BOOLEAN : AnswerSettled(p, ok)) /\ TeardownLimit' /\ UNCHANGED uiMuted
  \/ (Unregister) /\ TeardownLimit' /\ UNCHANGED uiMuted
  \/ (\E p \in pend : HangupSettled(p)) /\ TeardownLimit' /\ UNCHANGED uiMuted
  \/ (\E p \in pend, ok \in BOOLEAN : UnregisterSettled(p, ok)) /\ TeardownLimit' /\ UNCHANGED uiMuted
  \/ (\E s \in SessionIds : SessionEstablishing(s)) /\ TeardownLimit' /\ UNCHANGED uiMuted
  \/ (\E s \in SessionIds : AudioPathReady(s)) /\ TeardownLimit' /\ UNCHANGED uiMuted
  \/ (\E s \in SessionIds : SessionEstablished(s)) /\ TeardownLimit' /\ UNCHANGED uiMuted
  \/ (\E s \in SessionIds : SessionTerminated(s)) /\ TeardownLimit' /\ UNCHANGED uiMuted

SpecTeardown == InitRegistered /\ [][NextTeardown]_vars

\* ------------------------------------------------- the Softphone component
\* The service driven through the handlers of the Softphone component.  The
\* component shows the button of a handler only in the PhoneState that
\* CallControls lists for it; the specifications above drive the service
\* directly and leave the component's indicator alone.
handleCall ==
  /\ phoneState = "registered"
  /\ Call("1001")
  /\ UNCHANGED uiMuted

handleAnswer ==
  /\ phoneState = "ringing"
  /\ Answer
  /\ UNCHANGED uiMuted

\* handleHangup up to the await inside hangup(); with no current session
\* hangup() returns at once and setIsMuted(false) follows.
handleHangup ==
  /\ phoneState \in {"ringing", "calling", "in-call"}
  /\ \/ HangupNoSession /\ uiMuted' = FALSE
     \/ HangupStart("user") /\ UNCHANGED uiMuted

\* handleHangup after `await sipService.hangup()`: setIsMuted(false).
handleHangupSettled(p) ==
  /\ p.owner = "user"
  /\ HangupSettled(p)
  /\ uiMuted' = FALSE

\* handleMute: setIsMuted(sipService.toggleMute()).
handleMute ==
  /\ phoneState \in {"calling", "in-call"}
  /\ ToggleMute
  /\ uiMuted' = (ev'.result = "return:true")

NextSoftphone ==
  \/ (handleCall) /\ CommandLimit'
  \/ (\E p \in pend, ok \in BOOLEAN : CallSettled(p, ok)) /\ CommandLimit' /\ UNCHANGED uiMuted
  \/ (handleAnswer) /\ CommandLimit'
  \/ (\E p \in pend, ok \in BOOLEAN : AnswerSettled(p, ok)) /\ CommandLimit' /\ UNCHANGED uiMuted
  \/ (handleHangup) /\ CommandLimit'
  \/ (\E p \in pend : handleHangupSettled(p)) /\ CommandLimit'
  \/ (handleMute) /\ CommandLimit'
  \/ (\E u \in UAIds : HandleIncomingCall(u, TRUE)) /\ CommandLimit' /\ UNCHANGED uiMuted
  \/ (\E s \in SessionIds : SessionEstablishing(s)) /\ CommandLimit' /\ UNCHANGED uiMuted
  \/ (\E s \in SessionIds : AudioPathReady(s)) /\ CommandLimit' /\ UNCHANGED uiMuted
  \/ (\E s \in SessionIds : SessionEstablished(s)) /\ CommandLimit' /\ UNCHANGED uiMuted
  \/ (\E s \in SessionIds : SessionTerminated(s)) /\ CommandLimit' /\ UNCHANGED uiMuted

SpecSoftphone == InitRegistered /\ [][NextSoftphone]_vars

\* ================================================================ claims
ActiveSession == currentSession # 0 /\ Live(currentSession)
LiveSessions  == {s \in SessionIds : Live(s)}

\* C1: at most one call session that has not reached Terminated exists at
\* any instant.
C1_AtMostOneLiveSession == Cardinality(LiveSessions) <= 1

\* C2: an incoming invite that arrives while a call session is active is
\* declined, creates no session, and leaves currentSession, PhoneState and the
\* caller identity as they were.
C2_SecondInviteDeclined ==
  [][(ev'.op = "incoming" /\ ActiveSession) =>
       /\ ev'.req = "reject"
       /\ NumSessions' = NumSessions
       /\ UNCHANGED <<currentSession, phoneState, callerId>>]_vars

\* C3: call(destination) invoked while a call session is active fails with
\* SessionBusy, creates no session, does not replace the active session and
\* emits no notification.
C3_CallWhileBusyRejected ==
  [][(/\ ev'.op = "call" /\ ActiveSession
      /\ ev'.result \notin {"throw:NotConnected", "throw:InvalidDestination"}) =>
       /\ ev'.result = "throw:SessionBusy"
       /\ ev'.notes = <<>>
       /\ UNCHANGED <<currentSession, sessions, phoneState, callerId>>]_vars

\* RegistrationState of the spec (section 3), read off the registerer: Registered
\* once the current registerer reported it, Unregistered once it reported that,
\* Registering while a register() is awaiting, Unregistered otherwise.
RegistrationState ==
  IF registerer # 0 /\ regState[registerer].state = "Registered" THEN "Registered"
  ELSE IF \E p \in pend : p.op = "register" /\ p.stage = "start" THEN "Registering"
  ELSE IF registerer # 0 /\ regState[registerer].state \in {"Unregistered", "Terminated"}
    THEN "Unregistered"
  ELSE IF \E p \in pend : p.op = "register" THEN "Registering"
  ELSE "Unregistered"

\* The PhoneState table of section 3; "undefined" where the table has no row.
TablePhoneState ==
  LET reg  == RegistrationState
      sess == IF currentSession = 0 THEN NoSession ELSE sessions[currentSession] IN
  IF reg = "Registering" THEN "connecting"
  ELSE IF reg = "Unregistered"
    THEN (IF currentSession = 0 THEN "disconnected" ELSE "undefined")
  ELSE IF currentSession = 0 THEN "registered"
  ELSE IF sess.state = "Established" THEN "in-call"
  ELSE IF sess.dir = "in" /\ sess.state \in {"Initial", "Establishing"} THEN "ringing"
  ELSE IF sess.dir = "out" /\ sess.state = "Establishing" THEN "calling"
  ELSE "undefined"

\* A registerer whose register() resolved and that has reported nothing yet is
\* neither clearly Registering nor clearly Unregistered: left out of C4.
RegistrationSettled ==
  \/ registerer = 0
  \/ regState[registerer].state # "Initial"
  \/ \E p \in pend : p.op = "register"

\* C4: the PhoneState last notified equals the table function of
\* (registration state, active session direction, active session sub-state)
\* wherever the table has a row.
C4_PhoneStateIsTable ==
  (RegistrationSettled /\ TablePhoneState # "undefined") => phoneState = TablePhoneState

\* C5: hangup() on a session that has not reached Terminated ends with no
\* active session, PhoneState registered, empty caller identity and muted
\* false, whether its bye/reject/cancel resolved or rejected; it resolves and
\* reports nothing through onError.
C5_HangupAlwaysClears ==
  [][ev'.op = "hangup:settled" =>
       /\ currentSession' = 0
       /\ phoneState' = "registered"
       /\ callerId' = ""
       /\ isMuted' = FALSE
       /\ ev'.result = "ok"
       /\ \A i \in 1..Len(ev'.notes) : ev'.notes[i][1] # "error"]_vars

C5_Witness ==
  /\ ev.op = "hangup:settled" /\ ev.settled = "rejected"
  /\ currentSession = 0 /\ phoneState = "registered" /\ callerId = "" /\ ~isMuted

\* C6: hangup() called again after a hangup() has completed, or after the
\* session reached Terminated by an event, or with no session at all, is a
\* no-op: it sends nothing, notifies nothing, raises nothing and changes no
\* state; after a completed hangup() or a Terminated event that state is
\* (no session, registered, empty caller identity, not muted).
C6_HangupIdempotent ==
  [][(ev'.op = "hangup" /\
        (ev.op \in {"hangup:settled", "session:Terminated"} \/ currentSession = 0)) =>
       /\ ev'.req = "none" /\ ev'.result = "ok" /\ ev'.notes = <<>>
       /\ UNCHANGED <<userAgent, uaState, registerer, regState, currentSession,
                      sessions, isMuted, phoneState, callerId, pend>>
       /\ currentSession' = 0
       /\ ev.op \in {"hangup:settled", "session:Terminated"} =>
            phoneState' = "registered" /\ callerId' = "" /\ isMuted' = FALSE]_vars

C6_Witness ==
  /\ ev.op = "hangup" /\ ev.req = "none" /\ ev.sid = 0
  /\ \E s \in SessionIds : sessions[s].state # "None"
  /\ currentSession = 0 /\ phoneState = "registered" /\ callerId = "" /\ ~isMuted

\* C7: hangup() sends reject for an inbound session still Initial, cancel for
\* an outbound session that is Establishing, and bye for an Established one.
C7_HangupRequestBySubState ==
  [][(ev'.op = "hangup" /\ currentSession # 0) =>
       LET sess == sessions[currentSession] IN
         /\ (sess.dir = "in" /\ sess.state = "Initial") => ev'.req = "reject"
         /\ (sess.dir = "out" /\ sess.state = "Establishing") => ev'.req = "cancel"
         /\ sess.state = "Established" => ev'.req = "bye"]_vars

\* The only session ever created is alive and no longer in the slot: a
\* hangup() on it has run its finally block (nothing else empties the slot of
\* a live session when there is no other session).
HungUp(s) == NumSessions = 1 /\ Live(s) /\ currentSession = 0

InFlight(s) == \E q \in pend : q.op \in {"call", "answer"} /\ q.id = s

\* C8: once a hangup() invoked while a call() or answer() on the session is
\* in flight has completed, the completion of that call()/answer() and the
\* Establishing/Established events of the session that arrive meanwhile change
\* neither the slot nor PhoneState nor the caller identity.
C8_LateResponseAbsorbed ==
  [][(/\ ev'.op \in {"call:settled", "answer:settled", "session:Establishing",
                     "session:Established"}
      /\ HungUp(ev'.sid) /\ InFlight(ev'.sid)) =>
       UNCHANGED <<currentSession, phoneState, callerId>>]_vars

\* C9: a hangup() or a failing call() that resumes after its await clears only
\* the session it was invoked on: an inbound session created meanwhile (after
\* the first session reached Terminated) is still the active one, ringing,
\* with its caller identity.
C9_ClearsOnlyOwnSession ==
  [][(/\ ev'.op \in {"hangup:settled", "call:settled"}
      /\ currentSession # 0 /\ currentSession # ev'.sid
      /\ sessions[currentSession].dir = "in"
      /\ sessions[ev'.sid].state = "Terminated") =>
       UNCHANGED <<currentSession, phoneState, callerId>>]_vars

\* C10: register() invoked while Registering or Registered is rejected with
\* AlreadyConnected: no user agent or registerer is created, nothing is
\* notified, registration and session are untouched.
C10_RegisterWhileConnectedRejected ==
  [][(ev'.op = "register" /\ RegistrationState \in {"Registering", "Registered"}) =>
       /\ ev'.result = "throw:AlreadyConnected"
       /\ ev'.notes = <<>>
       /\ UNCHANGED <<userAgent, uaState, registerer, regState, phoneState,
                      currentSession, sessions>>]_vars

HasError(notes) == \E i \in 1..Len(notes) : notes[i][1] = "error"

\* The registration attempt `u` (0: a register() that made no user agent) has
\* the controller to itself: no other register() is awaiting and no other
\* registerer stands Registered.
OnlyAttempt(u) ==
  /\ \A q \in pend : q.op = "register" => q.id = u
  /\ registerer \in {0, u} \/ regState[registerer].state # "Registered"

\* C11: every connection failure of register() (invalid address, the
\* registration rejected as reported by the registerer, start() or register()
\* failing) reports an error through onError and leaves the controller
\* Unregistered with PhoneState disconnected.
C11_RegisterFailureReported ==
  [][(/\ \/ ev'.op = "register" /\ ev'.result # "ok"
         \/ ev'.op = "register:settled" /\ ev'.settled = "rejected"
         \/ ev'.op = "registerer:Unregistered" /\ regState[ev'.sid].state = "Initial"
      /\ OnlyAttempt(ev'.sid)) =>
       /\ HasError(ev'.notes)
       /\ phoneState' = "disconnected"
       /\ RegistrationState' = "Unregistered"]_vars

\* C12: unregister() always ends with PhoneState disconnected and the user
\* agent released, also when registerer.unregister() or userAgent.stop()
\* fails, and reports nothing through onError.
C12_UnregisterAlwaysDisconnects ==
  [][(/\ ev'.op \in {"unregister", "unregister:hangup-settled", "unregister:settled"}
      /\ ev'.req = "none") =>
       /\ phoneState' = "disconnected"
       /\ userAgent' = 0
       /\ ~HasError(ev'.notes)]_vars

\* C13: unregister() sends the unregister request to the server only once
\* every session has reached Terminated.
C13_UnregisterAfterTerminated ==
  [][(/\ ev'.op \in {"unregister", "unregister:hangup-settled"}
      /\ ev'.req = "unreg") =>
       \A s \in SessionIds : sessions'[s].state \in {"None", "Terminated"}]_vars

\* C14: answer() with no session, with an outbound session, or with an inbound
\* session that is no longer Initial fails at once, sends no accept, notifies
\* nothing and changes no state.
C14_AnswerOnlyWhenIdleInbound ==
  [][(/\ ev'.op = "answer"
      /\ ~(/\ currentSession # 0
           /\ sessions[currentSession].dir = "in"
           /\ sessions[currentSession].state = "Initial")) =>
       /\ ev'.result = "throw:NoIncomingCall"
       /\ ev'.req = "none"
       /\ ev'.notes = <<>>
       /\ UNCHANGED <<currentSession, sessions, isMuted, phoneState, callerId, pend>>]_vars

\* C15: when the accept of answer() fails, the session has moved to Terminated
\* and is out of the slot, PhoneState is registered and the caller identity
\* empty (unless a new session was created since), and the error is reported
\* through onError.
C15_AcceptFailureTerminates ==
  [][(ev'.op = "answer:settled" /\ ev'.settled = "rejected") =>
       /\ sessions'[ev'.sid].state = "Terminated"
       /\ currentSession' # ev'.sid
       /\ currentSession' = 0 => (phoneState' = "registered" /\ callerId' = "")
       /\ HasError(ev'.notes)]_vars

\* C16: when the invite of call() fails, the error is reported through
\* onError, the session is Terminated, the slot is empty and PhoneState is
\* registered.
C16_InviteFailureReported ==
  [][(ev'.op = "call:settled" /\ ev'.settled = "rejected") =>
       /\ HasError(ev'.notes)
       /\ sessions'[ev'.sid].state = "Terminated"
       /\ currentSession' # ev'.sid
       /\ currentSession' = 0 => phoneState' = "registered"]_vars

\* C17: a Terminated event for the session in the slot, whatever the session's
\* state before it, empties the slot; a call() or an incoming invite that comes
\* next creates a session and puts it in the slot.
C17_TerminatedEventFreesSlot ==
  [][/\ (ev'.op = "session:Terminated" /\ currentSession = ev'.sid) =>
          /\ currentSession' = 0
          /\ sessions'[ev'.sid].state = "Terminated"
     /\ (ev.op = "session:Terminated" /\ ev'.op \in {"call", "incoming"}) =>
          /\ ev'.result = "ok"
          /\ NumSessions' = NumSessions + 1
          /\ currentSession' = ev'.sid
          /\ sessions'[ev'.sid].state = "Initial"]_vars

\* The call() that created session 1 is still awaiting its invite(), so no
\* hangup() has run on the session: the Terminated event found it in the slot.
C17_Witness ==
  /\ ev.op = "session:Terminated" /\ ev.sid = 1
  /\ \E q \in pend : q.op = "call" /\ q.id = 1
  /\ NumSessions = 1
  /\ currentSession = 0

TransportRequests == {"accept", "bye", "reject", "cancel", "info", "audio"}

\* C18: a session that has reached Terminated is never in the slot again, and
\* no command sends accept, bye, reject, cancel, info or an audio directive
\* on it.
C18_TerminatedDiscarded ==
  [][/\ currentSession' # 0 => sessions'[currentSession'].state # "Terminated"
     /\ ev'.req \in TransportRequests =>
          /\ ev'.sid # 0
          /\ sessions[ev'.sid].state # "Terminated"]_vars

C18_Witness ==
  /\ ev.op \in {"answer", "hangup", "toggleMute", "sendDTMF"}
  /\ ev.req = "none"
  /\ currentSession = 0
  /\ \E s \in SessionIds : sessions[s].state = "Terminated"

\* C19: toggleMute() with no Established session in the slot (no session, or
\* one still ringing or calling) returns false and leaves the muted flag and
\* the audio track as they were.
C19_ToggleMuteNeedsEstablished ==
  [][(/\ ev'.op = "toggleMute"
      /\ ~(currentSession # 0 /\ sessions[currentSession].state = "Established")) =>
       /\ ev'.result = "return:false"
       /\ ev'.req = "none"
       /\ UNCHANGED <<isMuted, sessions>>]_vars

\* C20: with an Established session in the slot, toggleMute() returns the new
\* muted value, and a second toggleMute() right after it gives back the muted
\* flag and the enabled flag of the audio track the first one started from.
C20_ToggleTwiceRoundTrip ==
  [][(/\ ev'.op = "toggleMute"
      /\ currentSession # 0
      /\ sessions[currentSession].state = "Established") =>
       LET muted2 == ~isMuted'
           track2 == TrackAfterToggle(sessions'[currentSession].track, muted2) IN
         /\ ev'.result = (IF isMuted' THEN "return:true" ELSE "return:false")
         /\ isMuted' = ~isMuted
         /\ muted2 = isMuted
         /\ track2 = sessions[currentSession].track]_vars

\* C21: the muted flag is true only while the session in the slot is
\* Established; it is false with no session, at the creation of a session and
\* after every end of a session.
C21_MutedOnlyWhenEstablished ==
  isMuted => (currentSession # 0 /\ sessions[currentSession].state = "Established")

\* C22: sendDTMF() sends an INFO request only when the session in the slot is
\* Established; with no session or one still ringing or calling nothing is sent.
C22_DtmfOnlyWhenEstablished ==
  [][(ev'.op = "sendDTMF" /\ ev'.req = "info") =>
       /\ currentSession # 0
       /\ sessions[currentSession].state = "Established"]_vars

\* The symbols the specification allows (section 4.4).
C23_Symbols == {"0", "1", "2", "3", "4", "5", "6", "7", "8", "9", "*", "#"}

\* C23: sendDTMF() sends a signal only for an argument that is one symbol of
\* {0-9, *, #}, and then with that symbol and duration 100; for any other
\* argument it returns normally and sends nothing.
C23_DtmfValidatesSymbol ==
  [][ev'.op = "sendDTMF" =>
       /\ ev'.result = "ok"
       /\ ev'.req = "info" =>
            \E c \in C23_Symbols :
              /\ ev'.arg = <<c>>
              /\ ev'.body = [signal |-> c, duration |-> 100]
       /\ (~\E c \in C23_Symbols : ev'.arg = <<c>>) =>
            (ev'.req = "none" /\ ev'.body = NoBody)]_vars

C23_Witness ==
  /\ ev.op = "sendDTMF" /\ ev.req = "info"
  /\ ev.arg = <<"#">>
  /\ ev.body = [signal |-> "#", duration |-> 100]

\* C24: sendDTMF() never throws and changes neither PhoneState, the caller
\* identity, the muted flag nor the slot, and notifies nothing, also with no
\* session and when sending the INFO request fails.
C24_DtmfChangesNothing ==
  [][ev'.op = "sendDTMF" =>
       /\ ev'.result = "ok"
       /\ ev'.notes = <<>>
       /\ UNCHANGED <<phoneState, callerId, isMuted, currentSession>>]_vars

C24_Witness ==
  /\ ev.op = "sendDTMF" /\ ev.req = "info" /\ ev.settled = "caught"
  /\ ev.result = "ok" /\ ev.notes = <<>>

\* C25: a step that notifies both a PhoneState and a caller identity (call
\* creation, incoming invite, hangup, Terminated event) delivers onStateChange
\* first: every onCallerId comes right after an onStateChange.
C25_StateBeforeCallerId ==
  /\ \A i \in 1..Len(ev.notes) :
       ev.notes[i][1] = "callerId" => (i > 1 /\ ev.notes[i - 1][1] = "state")
  /\ (ev.op \in {"incoming", "hangup:settled", "session:Terminated"}
        \/ (ev.op = "call" /\ ev.sid # 0)) =>
       /\ Len(ev.notes) = 2
       /\ ev.notes[1][1] = "state"
       /\ ev.notes[2][1] = "callerId"

C25_Witness ==
  /\ ev.op = "session:Terminated"
  /\ ev.notes = <<St("registered"), Cid("")>>
  /\ phoneState = "registered" /\ callerId = ""

StateNotes(notes)    == SelectSeq(notes, LAMBDA n : n[1] = "state")
CallerIdNotes(notes) == SelectSeq(notes, LAMBDA n : n[1] = "callerId")

\* C26: the observer never gets an onStateChange carrying the state it was
\* last given, nor an onCallerId carrying the identity it was last given.
C26_NoRepeatedNotification ==
  [][LET sn == StateNotes(ev'.notes)
         cn == CallerIdNotes(ev'.notes) IN
       /\ \A i \in 1..Len(sn) :
            sn[i][2] # (IF i = 1 THEN phoneState ELSE sn[i - 1][2])
       /\ \A i \in 1..Len(cn) :
            cn[i][2] # (IF i = 1 THEN callerId ELSE cn[i - 1][2])]_vars

\* C27: with no session in the slot and PhoneState disconnected, connecting
\* or registered, the caller identity last notified is empty.
C27_NoSessionNoCallerId ==
  (currentSession = 0 /\ phoneState \in {"disconnected", "connecting", "registered"}) =>
    callerId = ""

\* C28: register() with an invalid address and call() with an invalid
\* destination throw without notifying a PhoneState or a caller identity and
\* without creating a user agent or a session.
C28_InputErrorFailsFast ==
  [][ev'.result \in {"throw:InvalidURI", "throw:InvalidDestination"} =>
       /\ StateNotes(ev'.notes) = <<>>
       /\ CallerIdNotes(ev'.notes) = <<>>
       /\ UNCHANGED <<userAgent, uaState, registerer, regState, currentSession,
                      sessions, phoneState, callerId>>]_vars

\* C29: the steps of a successful registration notify connecting and then
\* registered and nothing else: register(valid credentials) notifies
\* connecting, the resolved start() and register() notify nothing, and the
\* registerer reporting Registered notifies registered.
C29_RegisterScenario ==
  [][/\ (ev'.op = "register" /\ ev'.result = "ok") =>
          (ev'.notes = <<St("connecting")>> /\ phoneState' = "connecting")
     /\ (ev'.op = "register:settled" /\ ev'.settled = "resolved") =>
          (ev'.notes = <<>> /\ phoneState' = phoneState)
     /\ ev'.op = "registerer:Registered" =>
          (ev'.notes = <<St("registered")>> /\ phoneState' = "registered")]_vars

C29_Witness ==
  /\ ev.op = "registerer:Registered"
  /\ NumUA = 1 /\ registerer = 1 /\ regState[1].state = "Registered"
  /\ pend = {}
  /\ phoneState = "registered"

\* C30: an incoming invite from peer P (the user part of its From address)
\* that arrives while the phone is registered with no session creates an
\* inbound session in the slot, notifies ringing and then P as the caller
\* identity.
C30_IncomingInviteRings ==
  [][(/\ ev'.op = "incoming" /\ ev'.arg # ""
      /\ currentSession = 0 /\ phoneState = "registered") =>
       /\ NumSessions' = NumSessions + 1
       /\ currentSession' = ev'.sid
       /\ sessions'[ev'.sid].dir = "in"
       /\ sessions'[ev'.sid].state = "Initial"
       /\ phoneState' = "ringing"
       /\ callerId' = ev'.arg
       /\ ev'.notes = <<St("ringing"), Cid(ev'.arg)>>]_vars

C30_Witness ==
  /\ ev.op = "incoming" /\ ev.arg = "4155551212"
  /\ currentSession = ev.sid
  /\ sessions[ev.sid].dir = "in" /\ sessions[ev.sid].state = "Initial"
  /\ NumSessions = 1
  /\ phoneState = "ringing" /\ callerId = "4155551212"

\* C31: from ringing, answer() and then the Established event lead to in-call
\* for the same session: answer(), its completion and the audio path notify
\* nothing, the Established event of an inbound session notifies in-call, the
\* only session in the slot, inbound and not yet Established, shows ringing,
\* and calling is never notified by a step of an inbound session.
C31_AnswerScenario ==
  [][/\ (/\ ev'.op = "answer" /\ ev'.req = "accept"
         /\ sessions[currentSession].state = "Initial") =>
          /\ ev'.notes = <<>>
          /\ UNCHANGED <<phoneState, currentSession>>
          /\ sessions'[currentSession].state = "Establishing"
     /\ (ev'.op = "answer:settled" /\ ev'.settled = "resolved") =>
          (ev'.notes = <<>> /\ UNCHANGED <<phoneState, currentSession>>)
     /\ ev'.op = "session:audio" =>
          (ev'.notes = <<>> /\ UNCHANGED <<phoneState, currentSession>>)
     /\ (ev'.op = "session:Established" /\ sessions[ev'.sid].dir = "in") =>
          /\ ev'.notes = <<St("in-call")>>
          /\ phoneState' = "in-call"
          /\ UNCHANGED currentSession
     /\ (/\ currentSession' = 1
         /\ sessions'[1].dir = "in"
         /\ sessions'[1].state \in {"Initial", "Establishing"}
         /\ NumSessions' = 1) =>
          phoneState' = "ringing"
     /\ \A i \in 1..Len(ev'.notes) :
          ev'.notes[i] = St("calling") =>
            (ev'.sid # 0 /\ sessions'[ev'.sid].dir = "out")]_vars

\* The one session ever created is inbound, in the slot and Established.
C31_Witness ==
  /\ ev.op = "session:Established" /\ ev.sid = 1
  /\ NumSessions = 1 /\ currentSession = 1
  /\ sessions[1].dir = "in" /\ sessions[1].state = "Established"
  /\ phoneState = "in-call"

\* C32: an Establishing, Established or Terminated event of a session that
\* is not the one in the slot (hung up or replaced) changes neither the slot,
\* the muted flag, PhoneState nor the caller identity and notifies nothing.
C32_StaleEventIgnored ==
  [][(/\ ev'.op \in {"session:Establishing", "session:Established",
                     "session:Terminated"}
      /\ currentSession # ev'.sid) =>
       /\ ev'.notes = <<>>
       /\ UNCHANGED <<currentSession, isMuted, phoneState, callerId>>]_vars

\* C33: after unregister() has completed (no user agent, PhoneState
\* disconnected) nothing but a register() changes PhoneState.
C33_StaysDisconnected ==
  [][(/\ userAgent = 0 /\ phoneState = "disconnected"
      /\ ev'.op # "register") =>
       phoneState' = "disconnected"]_vars

\* C34: call() invoked while PhoneState is disconnected or connecting throws
\* 'Not connected', creates no session and notifies nothing.
C34_CallOnlyWhenRegistered ==
  [][(ev'.op = "call" /\ phoneState \in {"disconnected", "connecting"}) =>
       /\ ev'.result = "throw:NotConnected"
       /\ ev'.notes = <<>>
       /\ UNCHANGED <<currentSession, sessions, phoneState, callerId>>]_vars

\* C35: when the session in the slot is Established and has an audio track,
\* the track is enabled exactly when the muted flag is false.
C35_TrackFollowsMuted ==
  (/\ currentSession # 0
   /\ sessions[currentSession].state = "Established"
   /\ sessions[currentSession].track # "none") =>
    sessions[currentSession].track = (IF isMuted THEN "off" ELSE "on")

\* C36: after every command and event the mute indicator of the Softphone
\* component equals the muted flag of the service.
C36_IndicatorIsMuteState == uiMuted = isMuted

====
